---- MODULE Spec2Model ----
(***************************************************************************)
(* Heartbeat monitor with root-cause analysis (lib/server_rca.py).         *)
(*                                                                         *)
(* Time is a discrete clock `now` counting seconds, the precision of the   *)
(* event timestamps and of the rotation suffix.  A timestamp is the second *)
(* at which the clock was read: strftime("%Y-%m-%dT%H:%M:%SZ") is a        *)
(* fixed-width, zero-padded rendering, so the string comparison of line    *)
(* 155 orders timestamps exactly as the integers do.                       *)
(*                                                                         *)
(* Python dicts are functions whose DOMAIN is the set of keys.             *)
(* Threads interleave between statements (the GIL makes one dict or list   *)
(* operation atomic, nothing more): every statement that touches shared    *)
(* state or reads the clock is a step of its own.                          *)
(***************************************************************************)
EXTENDS Integers, Sequences, FiniteSets, TLC

None == "None"

\* ---------------------------------------------------------------- bounds
Workers == {"w1", "w2"}
ClientIPs == {"10.0.0.1"}
Keys == {"key", "bad"}
API_KEY == "key"
\* FAIL_TIMEOUT is read from the environment (line 28), in seconds.
FAIL_TIMEOUT == 3
MaxTime == 4
NumRequests == 2
MaxPings == 2

\* ------------------------------------------------------------- constants
MAX_EVENTS_FILE_SIZE == 100 * 1024 * 1024
MAX_CACHE_SIZE == 1000
ANALYZE_LIMIT == 100
ANALYZE_WINDOW == 5

\* ---------------------------------------------------------------- helpers
Put(d, k, v) == [x \in (DOMAIN d) \cup {k} |-> IF x = k THEN v ELSE d[x]]
Del(d, k) == [x \in (DOMAIN d) \ {k} |-> d[x]]
EmptyDict == [x \in {} |-> None]
Min(a, b) == IF a <= b THEN a ELSE b
Max(a, b) == IF a >= b THEN a ELSE b

\* seq[-k:] of Python: the last k elements for k > 0, the whole list for
\* k = 0 (-0 is 0), and seq[|k|:] for k < 0.
PySuffix(seq, k) ==
    IF k > 0 THEN SubSeq(seq, Max(1, Len(seq) - k + 1), Len(seq))
    ELSE SubSeq(seq, Min(Len(seq), 0 - k) + 1, Len(seq))

Range(seq) == {seq[i] : i \in 1..Len(seq)}

Card(S) == Cardinality(S)

\* ------------------------------------------------------------ event store
\* An event of log_event (lines 104-110): extra is the sequence of the
\* values passed in `extra` (<<>> when there is none).
Event(ts, event_type, worker, client_ip, extra) ==
    [ts |-> ts, type |-> event_type, worker |-> worker,
     client_ip |-> client_ip, extra |-> extra]

\* get_recent_events (lines 148-163).  since_minutes = 0 stands for the two
\* falsy values None and 0, which take the same branch at line 152.
get_recent_events(cache, utcnow, limit, event_type, worker, since_minutes) ==
    LET e0 == PySuffix(cache, limit * 2)
        InWindow(e) == e.ts >= utcnow - since_minutes * 60
        e1 == IF since_minutes # 0 THEN SelectSeq(e0, InWindow) ELSE e0
        IsType(e) == e.type = event_type
        e2 == IF event_type \notin {None, ""} THEN SelectSeq(e1, IsType) ELSE e1
        IsWorker(e) == e.worker = worker
        e3 == IF worker \notin {None, ""} THEN SelectSeq(e2, IsWorker) ELSE e2
    IN  PySuffix(e3, limit)

\* The decision of analyze_failures (lines 178-221) on the events it read.
Classify(recent_downs) ==
    LET workers == {e.worker : e \in Range(recent_downs)}
        ips == {e.client_ip : e \in Range(recent_downs)}
        R(st, sev, msg) == [status |-> st, severity |-> sev, message |-> msg,
                            affected_workers |-> workers]
    IN  IF recent_downs = <<>> THEN R("healthy", None, <<"No recent failures">>)
        ELSE IF Card(workers) >= 5 THEN
            IF Card(ips) = 1
            THEN R("network_issue", "high", <<"NETWORK ISSUE", Card(workers)>>)
            ELSE IF Card(ips) <= 2
            THEN R("network_issue", "high", <<"REGIONAL ISSUE", Card(workers), Card(ips)>>)
            ELSE R("possible_ddos", "critical", <<"POSSIBLE DDOS", Card(workers), Card(ips)>>)
        ELSE IF Card(workers) >= 2
            THEN R("partial_outage", "medium", <<"PARTIAL", Card(workers)>>)
        ELSE R("individual_failure", "low", <<"Individual failure", workers>>)

\* analyze_failures (lines 166-221)
analyze_failures(cache, utcnow) ==
    Classify(get_recent_events(cache, utcnow, ANALYZE_LIMIT, "down", None, ANALYZE_WINDOW))

\* ------------------------------------------------------------------ state
VARIABLES
    now,            \* the clock (datetime.now / datetime.utcnow), in seconds
    last_seen,      \* dict worker -> time of the last heartbeat (line 45)
    timers,         \* dict worker -> Timer object (line 43)
    pause_events,   \* dict worker -> Event, always set (line 44)
    tobj,           \* the Timer objects ever created, with their callback threads
    req,            \* the request threads serving /ping
    event_cache,    \* line 50
    message_queue,  \* line 47: the messages put and not yet taken
    inodes,         \* the files of DATA_DIR, by inode
    events_file,    \* the inode EVENTS_FILE names, 0 when it does not exist
    backups,        \* dict rotation suffix -> inode of the rotated file
    budget,         \* heartbeats each worker has still to send
    lastHB,         \* history: worker -> clock value read by its latest heartbeat
    gapOK,          \* history: worker has always had a heartbeat less than FAIL_TIMEOUT ago
    failed,         \* history: a heartbeat request of the worker ended in an exception
    owed,           \* history: an accepted heartbeat of the worker has no DOWN event after it
    dsh,            \* history: DOWN events of the worker since its latest heartbeat
    dsa,            \* history: DOWN alerts of the worker since its latest heartbeat
    analysis,       \* the result of the latest analyze_failures call of the classifier runs
    lthr,           \* the threads running log_event in the event store runs
    calls,          \* log_event calls still to be made in the event store runs
    loggers,        \* number of threads that call log_event
    nextSeq,        \* the number the next call puts in its event
    hist,           \* history: every event ever appended to event_cache, in order
    npre,           \* history: how many events of hist the cache held at start-up
    overlap,        \* history: two log_event calls have been in progress at once
    dropped,        \* history: a log_event call returned without writing its record
    answer,         \* the latest query of the query runs and what it returned
    payloads,       \* the kinds of request body the clients of this run send
    io_faults,      \* whether the file operations of this run can raise OSError
    sender,         \* the message_sender thread (lines 224-242)
    taken,          \* history: the messages message_queue.get has returned, in order
    outcomes,       \* history: how the handling of each taken message ended
    worker_diagnostics, \* line 46: worker -> its latest diagnostics record
    diagnostics_file    \* the records written to DIAGNOSTICS_FILE, in order

regVars == <<last_seen, timers, pause_events, tobj, req, message_queue, budget,
             lastHB, gapOK, failed, owed, dsh, dsa>>
fsVars == <<inodes, events_file, backups>>
storeVars == <<lthr, calls, loggers, nextSeq, hist, npre, overlap, dropped>>
sendVars == <<sender, taken, outcomes>>
otherVars == <<answer, payloads, io_faults, sendVars>>
diagVars == <<worker_diagnostics, diagnostics_file>>

\* the value of `analysis` before any call of analyze_failures
NotAnalysed == [status |-> None]

\* ------------------------------------------------------------- the files
\* the bytes f.write puts in the file for one event (line 115)
LineBytes == 128

\* st_size: the bytes the file held at start-up plus the lines written since
FileSize(ino) == ino.base + Len(ino.lines) * LineBytes

\* rotate_file (lines 95-99) run without interference: the file system after it.
\* Path.rename is os.rename: an existing target is replaced.
RotateFs(fs, t) ==
    IF fs.events_file # 0 /\ FileSize(fs.inodes[fs.events_file]) > MAX_EVENTS_FILE_SIZE
    THEN [fs EXCEPT !.backups = Put(fs.backups, t, fs.events_file), !.events_file = 0]
    ELSE fs

\* open(EVENTS_FILE, "a") and f.write (lines 114-115) run without interference.
AppendFs(fs, event) ==
    IF fs.events_file = 0
    THEN [fs EXCEPT !.inodes = Append(fs.inodes, [base |-> 0, lines |-> <<event>>]),
                    !.events_file = Len(fs.inodes) + 1]
    ELSE [fs EXCEPT !.inodes[fs.events_file].lines = Append(@, event)]

\* lines 119-121 of log_event
CacheAppend(cache, event) == Append(cache, event)
CacheFull(cache) == Len(cache) > MAX_CACHE_SIZE
CachePopLast(cache) == SubSeq(cache, 1, Len(cache) - 1)   \* pop(), not the code's
CachePop(cache) == Tail(cache)
CacheTrim(cache) == IF CacheFull(cache) THEN CachePop(cache) ELSE cache

\* lines 116-117: an exception of lines 113-115 is caught and printed, and
\* the call goes on at the line given (line 119)
Uncaught(line) == "raised"
Caught(line) == line

\* open(EVENTS_FILE, "a") alone: the file is made when there is none
CreateFs(fs) ==
    IF fs.events_file = 0
    THEN [fs EXCEPT !.inodes = Append(fs.inodes, [base |-> 0, lines |-> <<>>]),
                    !.events_file = Len(fs.inodes) + 1]
    ELSE fs

\* The file system after lines 113-115 raised OSError: at stat or rename
\* (nothing done), at open (rotated, if it was due), or at write (opened).
FailedFs(fs, t) == {fs, RotateFs(fs, t), CreateFs(RotateFs(fs, t))}

\* log_event (lines 102-123) run without interference from another log_event.
Fs == [inodes |-> inodes, events_file |-> events_file, backups |-> backups]
LogEventAtomic(event) ==
    \/ LET fs == AppendFs(RotateFs(Fs, now), event)
       IN  /\ inodes' = fs.inodes
           /\ events_file' = fs.events_file
           /\ backups' = fs.backups
           /\ event_cache' = CacheTrim(CacheAppend(event_cache, event))
    \/ /\ io_faults
       /\ \E fs \in FailedFs(Fs, now) :
             /\ inodes' = fs.inodes
             /\ events_file' = fs.events_file
             /\ backups' = fs.backups
       /\ event_cache' = IF Caught("l119") = "l119"
                         THEN CacheTrim(CacheAppend(event_cache, event))
                         ELSE event_cache

\* no message: the local `msg` of a callback before line 264, the local
\* `message` of the dispatcher before message_queue.get() returns
NoMessage == [kind |-> "none"]

\* --------------------------------------------------------- Timer objects
\* threading.Timer: start() begins a wait of FAIL_TIMEOUT on the Timer's
\* `finished` event; cancel() sets it; when the wait ends with the event
\* unset the function is called, and a later cancel() changes nothing.
NewTimer(w) ==
    [w |-> w, started |-> FALSE, cancelled |-> FALSE, fired |-> FALSE,
     start |-> 0, pc |-> "wait", ct |-> 0, lp |-> 0, msg |-> NoMessage]

Live(t) == t.started /\ ~t.cancelled /\ ~t.fired
Running(t) == t.fired /\ t.pc \notin {"done", "dead"}
LiveTimers(w) == {i \in 1..Len(tobj) : tobj[i].w = w /\ Live(tobj[i])}
RunningTimers(w) == {i \in 1..Len(tobj) : tobj[i].w = w /\ Running(tobj[i])}

\* ------------------------------------------------------ request threads
IdleReq == [pc |-> "idle", w |-> None, ip |-> None, ct |-> 0, was_new |-> FALSE,
            st |-> None, downSince |-> FALSE, body |-> "none"]

\* The events of worker w in the cache, and what line 292 finds: a live
\* timer (or one that a request is about to start), or none with the worker
\* never seen (no Timer was ever made for it) or last confirmed DOWN (its
\* latest event is a DOWN), or a timer that has fired and whose callback has
\* not recorded a DOWN.
EventsOf(w) == LET Mine(e) == e.worker = w IN SelectSeq(event_cache, Mine)
DownsOf(w) == LET Mine(e) == e.worker = w /\ e.type = "down" IN SelectSeq(event_cache, Mine)
DownAlertsOf(w) ==
    LET Mine(m) == m.worker = w /\ m.kind = "down" IN SelectSeq(message_queue, Mine)
BeingArmed(w) ==
    {i \in 1..Len(tobj) : /\ tobj[i].w = w /\ ~tobj[i].started /\ ~tobj[i].cancelled
                           /\ \E r \in 1..NumRequests : req[r].w = w /\ req[r].pc = "p303"}
TimerState(w) ==
    IF LiveTimers(w) # {} \/ BeingArmed(w) # {} THEN "live"
    ELSE IF \A i \in 1..Len(tobj) : tobj[i].w # w THEN "down"
    ELSE IF EventsOf(w) # <<>> /\ EventsOf(w)[Len(EventsOf(w))].type = "down" THEN "down"
    ELSE "fired"

InFlight(w) == {r \in 1..NumRequests : req[r].pc # "idle" /\ req[r].w = w}

\* ping, lines 283-290: the key check and the clock read.  A request with a
\* wrong key is answered "Invalid API key" at once and touches nothing.  The
\* request threads are interchangeable: a request takes the first free one.
PingStart(r) ==
    /\ req[r].pc = "idle"
    /\ \A q \in 1..(r - 1) : req[q].pc # "idle"
    /\ \E w \in Workers, ip \in ClientIPs, key \in Keys, body \in payloads :
         IF key # API_KEY
         THEN UNCHANGED <<req, budget, lastHB>>
         ELSE /\ budget[w] > 0
              /\ budget' = [budget EXCEPT ![w] = @ - 1]
              /\ req' = [req EXCEPT ![r] = [IdleReq EXCEPT !.pc = "p291", !.w = w,
                                             !.ip = ip, !.ct = now,
                                             !.body = body]]
              /\ lastHB' = Put(lastHB, w, now)
    /\ UNCHANGED <<now, last_seen, timers, pause_events, tobj, event_cache,
                   message_queue, gapOK, failed, owed, dsh, dsa>>
    /\ UNCHANGED fsVars

\* line 291
PingLastSeen(r) ==
    /\ req[r].pc = "p291"
    /\ last_seen' = Put(last_seen, req[r].w, req[r].ct)
    /\ dsh' = [dsh EXCEPT ![req[r].w] = 0]
    /\ dsa' = [dsa EXCEPT ![req[r].w] = 0]
    /\ req' = [req EXCEPT ![r].pc = "p292"]
    /\ UNCHANGED <<now, timers, pause_events, tobj, event_cache, message_queue,
                   budget, lastHB, gapOK, failed, owed>>
    /\ UNCHANGED fsVars

\* line 292
PingWasNew(r) ==
    /\ req[r].pc = "p292"
    /\ req' = [req EXCEPT ![r].pc = "p295",
                          ![r].was_new = (req[r].w \notin DOMAIN timers),
                          ![r].st = TimerState(req[r].w)]
    /\ UNCHANGED <<now, last_seen, timers, pause_events, tobj, event_cache,
                   message_queue, budget, lastHB, gapOK, failed, owed, dsh, dsa>>
    /\ UNCHANGED fsVars

\* line 295
PingCheckTimer(r) ==
    /\ req[r].pc = "p295"
    /\ req' = [req EXCEPT ![r].pc = IF req[r].w \in DOMAIN timers THEN "p296" ELSE "p299"]
    /\ UNCHANGED <<now, last_seen, timers, pause_events, tobj, event_cache,
                   message_queue, budget, lastHB, gapOK, failed, owed, dsh, dsa>>
    /\ UNCHANGED fsVars

\* The request ends in an exception: Flask answers 500 and the thread is free.
Raise(r) == IdleReq

\* The body of a request, as lines 307-309 and log_diagnostics see it:
\* "none", a GET, or a POST that is not declared as JSON (request.is_json is
\* False whatever the body holds); "object", a non-empty JSON object;
\* "empty", JSON that is falsy ({}, [], 0, "", null, false); "invalid", a
\* body declared as JSON that does not parse; "scalar", JSON that is truthy
\* and no object (a non-empty list or string, a number, true).
Bodies == {"none", "object", "empty", "invalid", "scalar"}
Malformed == {"invalid", "scalar"}

\* line 313: where a request goes on after the diagnostics
AfterDiag(r) == IF req[r].was_new THEN "p315" ELSE "p318"

\* line 296: timers[worker_id].cancel(); KeyError when the key is gone
PingCancel(r) ==
    /\ req[r].pc = "p296"
    /\ IF req[r].w \in DOMAIN timers
       THEN /\ tobj' = [tobj EXCEPT ![timers[req[r].w]].cancelled = TRUE,
                                    ![timers[req[r].w]].start = 0]
            /\ req' = [req EXCEPT ![r].pc = "p299"]
            /\ UNCHANGED failed
       ELSE /\ req' = [req EXCEPT ![r] = Raise(r)]
            /\ failed' = [failed EXCEPT ![req[r].w] = TRUE]
            /\ UNCHANGED tobj
    /\ UNCHANGED <<now, last_seen, timers, pause_events, event_cache,
                   message_queue, budget, lastHB, gapOK, owed, dsh, dsa>>
    /\ UNCHANGED fsVars

\* lines 299-302: a fresh, set Event and a fresh Timer are stored
PingNewTimer(r) ==
    /\ req[r].pc = "p299"
    /\ pause_events' = Put(pause_events, req[r].w, TRUE)
    /\ tobj' = Append(tobj, NewTimer(req[r].w))
    /\ timers' = Put(timers, req[r].w, Len(tobj) + 1)
    /\ req' = [req EXCEPT ![r].pc = "p303"]
    /\ UNCHANGED <<now, last_seen, event_cache, message_queue, budget, lastHB,
                   gapOK, failed, owed, dsh, dsa>>
    /\ UNCHANGED fsVars

\* lines 303-304: timers[worker_id] is looked up again (KeyError when the
\* key is gone) and started (RuntimeError when it was started already)
PingStartTimer(r) ==
    /\ req[r].pc = "p303"
    /\ IF req[r].w \in DOMAIN timers /\ ~tobj[timers[req[r].w]].started
       THEN /\ tobj' = [tobj EXCEPT ![timers[req[r].w]].started = TRUE,
                                    ![timers[req[r].w]].start =
                                        IF tobj[timers[req[r].w]].cancelled
                                        THEN 0 ELSE now]
            /\ req' = [req EXCEPT ![r].pc = IF req[r].body # "none" THEN "p307"
                                             ELSE AfterDiag(r)]
            /\ UNCHANGED failed
       ELSE /\ req' = [req EXCEPT ![r] = Raise(r)]
            /\ failed' = [failed EXCEPT ![req[r].w] = TRUE]
            /\ UNCHANGED tobj
    /\ UNCHANGED <<now, last_seen, timers, pause_events, event_cache,
                   message_queue, budget, lastHB, gapOK, owed, dsh, dsa>>
    /\ UNCHANGED fsVars

\* log_diagnostics, lines 126-145, for a JSON object: the record is appended
\* to DIAGNOSTICS_FILE and becomes the worker's latest diagnostics.
log_diagnostics(worker, client_ip, diag_data) ==
    LET record == [ts |-> now, worker |-> worker, client_ip |-> client_ip,
                   data |-> diag_data]
    IN  /\ diagnostics_file' = Append(diagnostics_file, record)
        /\ worker_diagnostics' = Put(worker_diagnostics, worker, record)

\* lines 307-311, a POST declared as JSON.  request.get_json() raises
\* BadRequest when the body does not parse; a falsy value skips line 310;
\* log_diagnostics raises TypeError at `**diag_data` (line 132, before its
\* try) when the value is no mapping.
PingDiag(r) ==
    /\ req[r].pc = "p307"
    /\ CASE req[r].body = "invalid" ->
              /\ req' = [req EXCEPT ![r].pc = "e400"]
              /\ UNCHANGED diagVars
         [] req[r].body = "scalar" ->
              /\ req' = [req EXCEPT ![r].pc = "e500"]
              /\ UNCHANGED diagVars
         [] req[r].body = "object" ->
              /\ log_diagnostics(req[r].w, req[r].ip, req[r].body)
              /\ req' = [req EXCEPT ![r].pc = AfterDiag(r)]
         [] OTHER ->
              /\ req' = [req EXCEPT ![r].pc = AfterDiag(r)]
              /\ UNCHANGED diagVars
    /\ UNCHANGED <<now, last_seen, timers, pause_events, tobj, event_cache,
                   message_queue, budget, lastHB, gapOK, failed, owed, dsh, dsa>>
    /\ UNCHANGED fsVars

\* The exception leaves ping: Flask answers 400 (BadRequest) or 500.
PingAbort(r) ==
    /\ req[r].pc \in {"e400", "e500"}
    /\ req' = [req EXCEPT ![r] = Raise(r)]
    /\ failed' = [failed EXCEPT ![req[r].w] = TRUE]
    /\ UNCHANGED <<now, last_seen, timers, pause_events, tobj, event_cache,
                   message_queue, budget, lastHB, gapOK, owed, dsh, dsa>>
    /\ UNCHANGED fsVars

\* line 315: log_event("up", worker_id, client_ip)
PingLogUp(r) ==
    /\ req[r].pc = "p315"
    /\ LogEventAtomic(Event(now, "up", req[r].w, req[r].ip, <<>>))
    /\ req' = [req EXCEPT ![r].pc = "p316"]
    /\ UNCHANGED <<now, last_seen, timers, pause_events, tobj, message_queue,
                   budget, lastHB, gapOK, failed, owed, dsh, dsa>>

\* line 316
PingPutUp(r) ==
    /\ req[r].pc = "p316"
    /\ message_queue' = Append(message_queue, [kind |-> "up", worker |-> req[r].w,
                                                escalation |-> None])
    /\ req' = [req EXCEPT ![r].pc = "p318"]
    /\ UNCHANGED <<now, last_seen, timers, pause_events, tobj, event_cache,
                   budget, lastHB, gapOK, failed, owed, dsh, dsa>>
    /\ UNCHANGED fsVars

\* line 318: the heartbeat is accepted
PingReturn(r) ==
    /\ req[r].pc = "p318"
    /\ owed' = [owed EXCEPT ![req[r].w] = @ \/ ~req[r].downSince]
    /\ req' = [req EXCEPT ![r] = IdleReq]
    /\ UNCHANGED <<now, last_seen, timers, pause_events, tobj, event_cache,
                   message_queue, budget, lastHB, gapOK, failed, dsh, dsa>>
    /\ UNCHANGED fsVars

\* ------------------------------------------------------ expiry callbacks
\* Timer.run: the wait has lasted FAIL_TIMEOUT and `finished` is unset, so
\* missed_ping is called; lines 247-249 find the worker's Event set (no code
\* clears one) and pass.  The wait and the statements between line 290 and
\* line 251 take more than FAIL_TIMEOUT on a clock of microsecond resolution;
\* on the clock of seconds the callback starts in a later second than
\* start + FAIL_TIMEOUT.
Fire(i) ==
    /\ Live(tobj[i])
    /\ now > tobj[i].start + FAIL_TIMEOUT
    /\ tobj' = [tobj EXCEPT ![i].fired = TRUE, ![i].pc = "c251", ![i].start = 0]
    /\ UNCHANGED <<analysis, storeVars, otherVars, diagVars>>
    /\ UNCHANGED <<now, last_seen, timers, pause_events, req, event_cache,
                   message_queue, budget, lastHB, gapOK, failed, owed, dsh, dsa>>
    /\ UNCHANGED fsVars

\* line 251
MissedNow(i) ==
    /\ tobj[i].pc = "c251"
    /\ tobj' = [tobj EXCEPT ![i].ct = now, ![i].pc = "c252"]
    /\ UNCHANGED <<now, last_seen, timers, pause_events, req, event_cache,
                   message_queue, budget, lastHB, gapOK, failed, owed, dsh, dsa>>
    /\ UNCHANGED fsVars

\* the test of line 254
StaleLate(current_time, last_ping) == current_time - last_ping > FAIL_TIMEOUT + 1
Stale(current_time, last_ping) == current_time - last_ping > FAIL_TIMEOUT

\* line 252: last_seen.get(worker, current_time)
LastPingNow(w, current_time) == current_time
LastPing(w, current_time) ==
    IF w \in DOMAIN last_seen THEN last_seen[w] ELSE current_time

\* lines 252-254: last_seen is read again and the staleness decided
MissedCheck(i) ==
    /\ tobj[i].pc = "c252"
    /\ LET w == tobj[i].w
           last_ping == LastPing(w, tobj[i].ct)
       IN  tobj' = [tobj EXCEPT ![i].lp = last_ping,
                                ![i].pc = IF Stale(tobj[i].ct, last_ping)
                                          THEN "c257" ELSE "c272"]
    /\ UNCHANGED <<now, last_seen, timers, pause_events, req, event_cache,
                   message_queue, budget, lastHB, gapOK, failed, owed, dsh, dsa>>
    /\ UNCHANGED fsVars

\* lines 257-260: log_event("down", worker, extra=...), client_ip left None
MissedLogDown(i) ==
    /\ tobj[i].pc = "c257"
    /\ LET w == tobj[i].w
       IN  /\ LogEventAtomic(Event(now, "down", w, None,
                                   <<tobj[i].lp, tobj[i].ct - tobj[i].lp>>))
           /\ dsh' = [dsh EXCEPT ![w] = Min(2, @ + 1)]
           /\ owed' = [owed EXCEPT ![w] = FALSE]
           /\ req' = [r \in 1..NumRequests |->
                        IF req[r].w = w /\ req[r].pc \notin {"idle", "p291"}
                        THEN [req[r] EXCEPT !.downSince = TRUE] ELSE req[r]]
    /\ tobj' = [tobj EXCEPT ![i].pc = "c262"]
    /\ UNCHANGED <<now, last_seen, timers, pause_events, message_queue, budget,
                   lastHB, gapOK, failed, dsa>>

\* lines 262-266: the analysis and the text of the alert
DownMessage(w, rca) ==
    [kind |-> "down", worker |-> w,
     escalation |-> IF rca.status \in {"network_issue", "possible_ddos"}
                    THEN rca.message ELSE None]

MissedAnalyze(i) ==
    /\ tobj[i].pc = "c262"
    /\ tobj' = [tobj EXCEPT ![i].msg = DownMessage(tobj[i].w,
                                          analyze_failures(event_cache, now)),
                            ![i].pc = "c268"]
    /\ UNCHANGED <<now, last_seen, timers, pause_events, req, event_cache,
                   message_queue, budget, lastHB, gapOK, failed, owed, dsh, dsa>>
    /\ UNCHANGED fsVars

\* line 268
MissedPut(i) ==
    /\ tobj[i].pc = "c268"
    /\ message_queue' = Append(message_queue, tobj[i].msg)
    /\ dsa' = [dsa EXCEPT ![tobj[i].w] = Min(2, @ + 1)]
    /\ tobj' = [tobj EXCEPT ![i].pc = "c272", ![i].msg = NoMessage]
    /\ UNCHANGED <<now, last_seen, timers, pause_events, req, event_cache,
                   budget, lastHB, gapOK, failed, owed, dsh>>
    /\ UNCHANGED fsVars

\* line 272
MissedCheckTimer(i) ==
    /\ tobj[i].pc = "c272"
    /\ tobj' = [tobj EXCEPT ![i].pc = IF tobj[i].w \in DOMAIN timers
                                      THEN "c273" ELSE "c274"]
    /\ UNCHANGED <<now, last_seen, timers, pause_events, req, event_cache,
                   message_queue, budget, lastHB, gapOK, failed, owed, dsh, dsa>>
    /\ UNCHANGED fsVars

\* line 273: del timers[worker]; KeyError ends the callback's thread
MissedDelTimer(i) ==
    /\ tobj[i].pc = "c273"
    /\ IF tobj[i].w \in DOMAIN timers
       THEN /\ timers' = Del(timers, tobj[i].w)
            /\ tobj' = [tobj EXCEPT ![i].pc = "c274"]
       ELSE /\ tobj' = [tobj EXCEPT ![i].pc = "dead", ![i].ct = 0, ![i].lp = 0]
            /\ UNCHANGED timers
    /\ UNCHANGED <<now, last_seen, pause_events, req, event_cache,
                   message_queue, budget, lastHB, gapOK, failed, owed, dsh, dsa>>
    /\ UNCHANGED fsVars

\* lines 274-275.  No statement reads an Event's state but the wait of line
\* 249, which an always-set Event never blocks: the test and the del are one step.
MissedDelPause(i) ==
    /\ tobj[i].pc = "c274"
    /\ pause_events' = Del(pause_events, tobj[i].w)
    /\ tobj' = [tobj EXCEPT ![i].pc = "done", ![i].ct = 0, ![i].lp = 0]
    /\ UNCHANGED <<now, last_seen, timers, req, event_cache,
                   message_queue, budget, lastHB, gapOK, failed, owed, dsh, dsa>>
    /\ UNCHANGED fsVars

\* ------------------------------------------------------------- the clock
Tick ==
    /\ now < MaxTime
    /\ now' = now + 1
    /\ UNCHANGED <<analysis, storeVars, otherVars, diagVars>>
    /\ gapOK' = [w \in Workers |->
                   gapOK[w] /\ (w \in DOMAIN lastHB => now + 1 - lastHB[w] < FAIL_TIMEOUT)]
    /\ UNCHANGED <<last_seen, timers, pause_events, tobj, req, event_cache,
                   message_queue, budget, lastHB, failed, owed, dsh, dsa>>
    /\ UNCHANGED fsVars

\* ------------------------------------------------ the heartbeat registry
\* One worker sending MaxPings heartbeats, or every worker sending one.
Scenarios == {[w \in Workers |-> IF w = "w1" THEN MaxPings ELSE 0],
              [w \in Workers |-> 1]}

\* The module-level state of lines 43-47 as the import leaves it.
RegistryAtStart ==
    /\ last_seen = EmptyDict
    /\ timers = EmptyDict
    /\ pause_events = EmptyDict
    /\ tobj = <<>>
    /\ req = [r \in 1..NumRequests |-> IdleReq]
    /\ message_queue = <<>>
    /\ lastHB = EmptyDict
    /\ gapOK = [w \in Workers |-> TRUE]
    /\ failed = [w \in Workers |-> FALSE]
    /\ owed = [w \in Workers |-> FALSE]
    /\ dsh = [w \in Workers |-> 0]
    /\ dsa = [w \in Workers |-> 0]

\* No query has been made.
NotAsked == [kind |-> "none"]
NoQuery == answer = NotAsked

\* The file operations of the run succeed unless a file is gone.
ReliableDisk == io_faults = FALSE

\* No diagnostics have been received (line 46; the file does not exist).
NoDiagnostics ==
    /\ worker_diagnostics = EmptyDict
    /\ diagnostics_file = <<>>

\* The message_sender thread before its first message_queue.get().
IdleSender == [pc |-> "get", message |-> NoMessage, limited |-> 0]
SenderAtRest ==
    /\ sender = IdleSender
    /\ taken = <<>>
    /\ outcomes = <<>>

\* No thread of the event store runs is present.
StoreAtRest ==
    /\ lthr = <<>>
    /\ calls = 0
    /\ loggers = 0
    /\ nextSeq = 1
    /\ hist = <<>>
    /\ npre = 0
    /\ overlap = FALSE
    /\ dropped = FALSE

Init ==
    /\ now = 0
    /\ RegistryAtStart
    /\ event_cache = <<>>
    /\ inodes = <<>>
    /\ events_file = 0
    /\ backups = EmptyDict
    /\ budget \in Scenarios
    /\ analysis = NotAnalysed
    /\ StoreAtRest
    /\ NoQuery
    /\ NoDiagnostics
    /\ ReliableDisk
    /\ payloads = {"none"}
    /\ SenderAtRest

ping(r) ==
    /\ UNCHANGED <<analysis, storeVars, otherVars>>
    /\ \/ /\ \/ PingStart(r)
             \/ PingLastSeen(r)
             \/ PingWasNew(r)
             \/ PingCheckTimer(r)
             \/ PingCancel(r)
             \/ PingNewTimer(r)
             \/ PingStartTimer(r)
             \/ PingAbort(r)
             \/ PingLogUp(r)
             \/ PingPutUp(r)
             \/ PingReturn(r)
          /\ UNCHANGED diagVars
       \/ PingDiag(r)

missed_ping(i) ==
    /\ UNCHANGED <<analysis, storeVars, otherVars, diagVars>>
    /\ \/ MissedNow(i)
       \/ MissedCheck(i)
       \/ MissedLogDown(i)
       \/ MissedAnalyze(i)
       \/ MissedPut(i)
       \/ MissedCheckTimer(i)
       \/ MissedDelTimer(i)
       \/ MissedDelPause(i)

Next ==
    \/ \E r \in 1..NumRequests : ping(r)
    \/ \E i \in 1..Len(tobj) : Fire(i)
    \/ \E i \in 1..Len(tobj) : missed_ping(i)
    \/ Tick

vars == <<now, last_seen, timers, pause_events, tobj, req, event_cache,
          message_queue, inodes, events_file, backups, budget, lastHB, gapOK,
          failed, owed, dsh, dsa, analysis, lthr, calls, loggers, nextSeq,
          hist, npre, overlap, dropped, answer, payloads, io_faults, diagVars, sender,
          taken, outcomes>>

Spec == Init /\ [][Next]_vars

\* ------------------------------------------------------- classifier runs
\* analyze_failures applied to the store contents a start-up can leave: the
\* events file holds what earlier runs of the server wrote, and
\* load_event_cache (lines 516-529) reads its last MAX_CACHE_SIZE lines.
load_event_cache(lines) == PySuffix(lines, MAX_CACHE_SIZE)

Fleet == <<"w1", "w2", "w3", "w4", "w5", "w6">>
Addresses == <<"10.0.0.1", "10.0.0.2", "10.0.0.3">>
AnalyzeAt == 600
Fills == {0, ANALYZE_LIMIT * 2 - 1, ANALYZE_LIMIT * 2}
Repeats == {0, ANALYZE_LIMIT}

\* The DOWN event of the k-th worker: with client_ip null, as missed_ping
\* logs it (line 257), when na = 0, and from one of na addresses otherwise.
DownOf(k, na, ts) ==
    Event(ts, "down", Fleet[k],
          IF na = 0 THEN None ELSE Addresses[((k - 1) % na) + 1], None)

\* A file of: one DOWN event older than the window (when old), the DOWN
\* events of nw workers from na addresses, the first of them exactly
\* ANALYZE_WINDOW minutes old, rep more DOWN events of the last of these
\* workers, and fill UP events.
StoredLines(old, nw, na, rep, fill) ==
    (IF old THEN <<Event(AnalyzeAt - ANALYZE_WINDOW * 60 - 1, "down",
                         Fleet[Len(Fleet)],
                         IF na = 0 THEN None ELSE Addresses[Len(Addresses)], None)>>
            ELSE <<>>)
    \o [k \in 1..nw |-> DownOf(k, na, IF k = 1 THEN AnalyzeAt - ANALYZE_WINDOW * 60
                                                ELSE AnalyzeAt - 10)]
    \o [j \in 1..(IF nw > 0 THEN rep ELSE 0) |-> DownOf(nw, na, AnalyzeAt - 5)]
    \o [j \in 1..fill |-> Event(AnalyzeAt - 1, "up", Fleet[1], Addresses[1], None)]

StoredFiles ==
    {StoredLines(old, nw, na, rep, fill) :
        old \in BOOLEAN, nw \in 0..(Len(Fleet) - 1), na \in 0..Len(Addresses),
        rep \in Repeats, fill \in Fills}

InitClassifier ==
    /\ now = AnalyzeAt
    /\ RegistryAtStart
    /\ \E lines \in StoredFiles :
          /\ inodes = <<[base |-> Len(lines) * LineBytes, lines |-> <<>>]>>
          /\ event_cache = load_event_cache(lines)
    /\ events_file = 1
    /\ backups = EmptyDict
    /\ budget = [w \in Workers |-> 0]
    /\ analysis = NotAnalysed
    /\ StoreAtRest
    /\ NoQuery
    /\ NoDiagnostics
    /\ ReliableDisk
    /\ payloads = {"none"}
    /\ SenderAtRest

\* a call of analyze_failures (line 262, line 500)
AnalyzeFailures ==
    /\ analysis = NotAnalysed
    /\ analysis' = analyze_failures(event_cache, now)
    /\ UNCHANGED <<now, regVars, event_cache, fsVars, storeVars, otherVars, diagVars>>

NextClassifier == AnalyzeFailures

SpecClassifier == InitClassifier /\ [][NextClassifier]_vars

\* ------------------------------------------------------ diagnostics runs
\* One worker sends one heartbeat, with any kind of body.
InitDiag ==
    /\ now = 0
    /\ RegistryAtStart
    /\ event_cache = <<>>
    /\ inodes = <<>>
    /\ events_file = 0
    /\ backups = EmptyDict
    /\ budget = [w \in Workers |-> IF w = "w1" THEN 1 ELSE 0]
    /\ analysis = NotAnalysed
    /\ StoreAtRest
    /\ NoQuery
    /\ NoDiagnostics
    /\ ReliableDisk
    /\ payloads = Bodies
    /\ SenderAtRest

NextDiag ==
    \/ \E r \in 1..NumRequests : ping(r)
    \/ \E i \in 1..Len(tobj) : Fire(i)
    \/ \E i \in 1..Len(tobj) : missed_ping(i)
    \/ Tick

SpecDiag == InitDiag /\ [][NextDiag]_vars

\* ------------------------------------------------------- the dispatcher
\* message_sender (lines 224-239), the one thread line 242 starts, with
\* telegram_request (utilities.py lines 5-16) inside it.  An answer of the
\* transport is one of: "ok"; "error", an error answer that is no rate
\* limit; "429", HTTP status 429; "429body", error_code 429 in the JSON body
\* under another HTTP status; "raise", requests.get or response.json()
\* raising.  A message gets at most MaxRateLimits rate-limit answers.
MaxRateLimits == 3
Answers == {"ok", "error", "429", "429body", "raise"}

\* Queue.get (line 227): the oldest message and what stays in the queue
QueueLast(q) == q[Len(q)]
QueueHead(q) == Head(q)
QueueRest(q) == Tail(q)

\* the thread after a rate-limit answer: asleep, the message kept
GiveUp(s, where) == [s EXCEPT !.pc = "get", !.message = NoMessage, !.limited = 0]
Backoff(s, where) == [s EXCEPT !.pc = where, !.limited = @ + 1]

\* the thread after a message is done with (lines 234-239): back at line 227
Die(s) == [s EXCEPT !.pc = "dead"]
NextMessage(s) == IdleSender

\* line 227: blocks while the queue is empty
SenderGet ==
    /\ sender.pc = "get"
    /\ message_queue # <<>>
    /\ sender' = [sender EXCEPT !.pc = "request", !.message = QueueHead(message_queue)]
    /\ message_queue' = QueueRest(message_queue)
    /\ taken' = Append(taken, QueueHead(message_queue))
    /\ UNCHANGED outcomes

\* line 230 with utilities.py lines 7-16: one requests.get and what follows
\* its answer.  Status 429 sleeps inside telegram_request (line 13) and asks
\* again; error_code 429 sleeps at line 233 and asks again; an exception goes
\* to the except clause of line 236; any other answer ends the inner loop
\* (line 235); lines 238-239 then end the handling of the message.
SenderRequest ==
    /\ sender.pc = "request"
    /\ \E a \in Answers :
         IF a \in {"429", "429body"}
         THEN /\ sender.limited < MaxRateLimits
              /\ sender' = Backoff(sender, IF a = "429" THEN "sleepU" ELSE "sleep")
              /\ UNCHANGED outcomes
         ELSE /\ sender' = NextMessage(sender)
              /\ outcomes' = Append(outcomes, [message |-> sender.message, result |-> a,
                                               attempts |-> sender.limited + 1])
    /\ UNCHANGED <<message_queue, taken>>

\* the end of time.sleep(retry_after + 1), utilities.py line 13, or of
\* time.sleep(retry_after), line 233
SenderWake ==
    /\ sender.pc \in {"sleepU", "sleep"}
    /\ sender' = [sender EXCEPT !.pc = "request"]
    /\ UNCHANGED <<message_queue, taken, outcomes>>

message_sender ==
    /\ \/ SenderGet
       \/ SenderRequest
       \/ SenderWake
    /\ UNCHANGED <<now, last_seen, timers, pause_events, tobj, req, event_cache,
                   budget, lastHB, gapOK, failed, owed, dsh, dsa>>
    /\ UNCHANGED <<fsVars, analysis, storeVars, answer, payloads, io_faults, diagVars>>

\* One worker sends one heartbeat and stops; the dispatcher delivers the UP
\* notification and the DOWN alert.
InitSender ==
    /\ now = 0
    /\ RegistryAtStart
    /\ event_cache = <<>>
    /\ inodes = <<>>
    /\ events_file = 0
    /\ backups = EmptyDict
    /\ budget = [w \in Workers |-> IF w = "w1" THEN 1 ELSE 0]
    /\ analysis = NotAnalysed
    /\ StoreAtRest
    /\ NoQuery
    /\ NoDiagnostics
    /\ ReliableDisk
    /\ payloads = {"none"}
    /\ SenderAtRest

NextSender ==
    \/ \E r \in 1..NumRequests : ping(r)
    \/ \E i \in 1..Len(tobj) : Fire(i)
    \/ \E i \in 1..Len(tobj) : missed_ping(i)
    \/ Tick
    \/ message_sender

\* The thread is a daemon thread that nothing stops: it runs when it can.
SpecSender == InitSender /\ [][NextSender]_vars /\ WF_vars(message_sender)

\* ------------------------------------------------ the plain server
\* message_sender of lib/server.py (lines 16-32): the same loop with a
\* try ... finally and no except clause.  Its messages are the "<worker> is
\* down" texts missed_ping puts (server.py line 47); the callbacks of a run
\* put PlainMessages of them in all.
PlainMessages == 3

\* server.py lines 30-32 after an exception of telegram_request: task_done()
\* runs and the exception leaves message_sender; the thread ends.
ThreadEnds(s) == [s EXCEPT !.pc = "dead"]

\* server.py line 47
PlainPut ==
    /\ Len(taken) + Len(message_queue) < PlainMessages
    /\ \E w \in Workers :
         message_queue' = Append(message_queue, [kind |-> "down", worker |-> w,
                                                  escalation |-> None])
    /\ UNCHANGED sendVars

\* server.py lines 23-32 with utilities.py lines 7-16
PlainRequest ==
    /\ sender.pc = "request"
    /\ \E a \in Answers :
         IF a \in {"429", "429body"}
         THEN /\ sender.limited < MaxRateLimits
              /\ sender' = Backoff(sender, IF a = "429" THEN "sleepU" ELSE "sleep")
              /\ UNCHANGED outcomes
         ELSE /\ sender' = IF a = "raise" THEN ThreadEnds(sender)
                                            ELSE NextMessage(sender)
              /\ outcomes' = Append(outcomes, [message |-> sender.message, result |-> a,
                                               attempts |-> sender.limited + 1])
    /\ UNCHANGED <<message_queue, taken>>

plain_message_sender ==
    \/ SenderGet
    \/ PlainRequest
    \/ SenderWake

InitPlain ==
    /\ now = 0
    /\ RegistryAtStart
    /\ event_cache = <<>>
    /\ inodes = <<>>
    /\ events_file = 0
    /\ backups = EmptyDict
    /\ budget = [w \in Workers |-> 0]
    /\ analysis = NotAnalysed
    /\ StoreAtRest
    /\ NoQuery
    /\ NoDiagnostics
    /\ ReliableDisk
    /\ payloads = {"none"}
    /\ SenderAtRest

NextPlain ==
    /\ \/ PlainPut
       \/ plain_message_sender
    /\ UNCHANGED <<now, last_seen, timers, pause_events, tobj, req, event_cache,
                   budget, lastHB, gapOK, failed, owed, dsh, dsa>>
    /\ UNCHANGED <<fsVars, analysis, storeVars, answer, payloads, io_faults, diagVars>>

SpecPlain == InitPlain /\ [][NextPlain]_vars /\ WF_vars(plain_message_sender)

\* ----------------------------------------------------------- query runs
\* The admin endpoints that read the event cache, applied to small caches.
MaxCache == 3
MaxLimit == 2
RCA_LIMIT == 500
RCA_PERIOD == 60
BUCKET_SECONDS == 600
MASS_FAILURE == 3

QueryWorkers == {"w1", "w2", "w3"}
QueryTimes == {AnalyzeAt - ANALYZE_WINDOW * 60 - 10, AnalyzeAt}
QueryEvents ==
    {Event(ts, type, w, "10.0.0.1", None) :
        ts \in QueryTimes, type \in {"up", "down"}, w \in QueryWorkers}

RECURSIVE SeqsUpTo(_, _)
SeqsUpTo(S, n) ==
    IF n = 0 THEN {<<>>}
    ELSE LET shorter == SeqsUpTo(S, n - 1)
         IN  shorter \cup {Append(q, x) : q \in shorter, x \in S}

\* admin_api_events (lines 428-444): min(limit, 1000) and the three filters
admin_api_events ==
    /\ answer = NotAsked
    /\ \E limit \in 0..MaxLimit, event_type \in {None, "up", "down"},
          worker \in {None, "w1"}, since_minutes \in {0, ANALYZE_WINDOW} :
          answer' = [kind |-> "events", limit |-> limit, event_type |-> event_type,
                     worker |-> worker, since_minutes |-> since_minutes,
                     events |-> get_recent_events(event_cache, now,
                                    Min(limit, MAX_CACHE_SIZE), event_type, worker,
                                    since_minutes)]
    /\ UNCHANGED <<now, regVars, event_cache, fsVars, analysis, storeVars, diagVars, payloads, io_faults,
                   sendVars>>

\* ts[:15] + "0:00Z" (line 484): the ten minutes the second lies in
Bucket(ts) == (ts \div BUCKET_SECONDS) * BUCKET_SECONDS

\* lines 481-492: the workers of the DOWN events by bucket, one entry per
\* event, and the buckets that hold at least MASS_FAILURE entries
TimeBuckets(down_events) ==
    [b \in {Bucket(e.ts) : e \in Range(down_events)} |->
        LET InB(e) == Bucket(e.ts) = b
            es == SelectSeq(down_events, InB)
        IN  [k \in 1..Len(es) |-> es[k].worker]]
MassFailures(time_buckets) ==
    {[time |-> b, workers |-> time_buckets[b], count |-> Len(time_buckets[b])] :
        b \in {k \in DOMAIN time_buckets : Len(time_buckets[k]) >= MASS_FAILURE}}

\* admin_api_rca (lines 472-501)
admin_api_rca ==
    /\ answer = NotAsked
    /\ LET events == get_recent_events(event_cache, now, RCA_LIMIT, None, None,
                                       RCA_PERIOD)
           IsDown(e) == e.type = "down"
           IsUp(e) == e.type = "up"
           down_events == SelectSeq(events, IsDown)
       IN  answer' = [kind |-> "rca", events |-> events,
                      total_events |-> Len(events),
                      up_events |-> Len(SelectSeq(events, IsUp)),
                      down_events |-> Len(down_events),
                      mass_failure_windows |-> MassFailures(TimeBuckets(down_events)),
                      current_analysis |-> analyze_failures(event_cache, now)]
    /\ UNCHANGED <<now, regVars, event_cache, fsVars, analysis, storeVars, diagVars, payloads, io_faults,
                   sendVars>>

InitQuery ==
    /\ now = AnalyzeAt
    /\ RegistryAtStart
    /\ event_cache \in SeqsUpTo(QueryEvents, MaxCache)
    /\ inodes = <<>>
    /\ events_file = 0
    /\ backups = EmptyDict
    /\ budget = [w \in Workers |-> 0]
    /\ analysis = NotAnalysed
    /\ StoreAtRest
    /\ NoQuery
    /\ NoDiagnostics
    /\ ReliableDisk
    /\ payloads = {"none"}
    /\ SenderAtRest

NextQuery ==
    \/ admin_api_events
    \/ admin_api_rca

SpecQuery == InitQuery /\ [][NextQuery]_vars

\* ------------------------------------------------------ event store runs
\* log_event (lines 102-123) and rotate_file (lines 95-99) statement by
\* statement, called from several threads (request threads and timer
\* callbacks call it without a lock).
MaxExtra == 1
MaxRace == 2
RaceCalls == 3
MaxSecond == 1

IdleLog == [pc |-> "idle", event |-> None, fh |-> 0]
Busy(t) == lthr[t].pc # "idle"
AllIdle == \A t \in 1..Len(lthr) : ~Busy(t)

\* lines 104-110; the number in `extra` tells the events apart
LogStart(t) ==
    /\ ~Busy(t)
    /\ \A u \in 1..(t - 1) : Busy(u)
    /\ calls > 0
    /\ t > 1 => calls <= MaxRace
    /\ calls' = calls - 1
    /\ nextSeq' = nextSeq + 1
    /\ lthr' = [lthr EXCEPT ![t] = [pc |-> "l97", fh |-> 0,
                  event |-> Event(now, "up", "w1", "10.0.0.1", <<nextSeq>>)]]
    /\ overlap' = (overlap \/ \E u \in 1..Len(lthr) : u # t /\ Busy(u))
    /\ UNCHANGED <<now, event_cache, fsVars, loggers, hist, npre, dropped>>

\* line 97: filepath.exists()
RotateExists(t) ==
    /\ lthr[t].pc = "l97"
    /\ lthr' = [lthr EXCEPT ![t].pc = IF events_file # 0 THEN "l97s" ELSE "l114"]
    /\ UNCHANGED <<now, event_cache, fsVars, calls, loggers, nextSeq, hist, npre,
                   overlap, dropped>>

\* line 97: filepath.stat().st_size > MAX_EVENTS_FILE_SIZE; FileNotFoundError
\* when the file is gone, caught at line 116
RotateStat(t) ==
    /\ lthr[t].pc = "l97s"
    /\ IF events_file = 0
       THEN lthr' = [lthr EXCEPT ![t].pc = Caught("l119")] /\ dropped' = TRUE
       ELSE /\ lthr' = [lthr EXCEPT ![t].pc =
                    IF FileSize(inodes[events_file]) > MAX_EVENTS_FILE_SIZE
                    THEN "l98" ELSE "l114"]
            /\ UNCHANGED dropped
    /\ UNCHANGED <<now, event_cache, fsVars, calls, loggers, nextSeq, hist, npre,
                   overlap>>

\* lines 98-99: the name is made of the second, and rename replaces a file
\* that has the name; FileNotFoundError when EVENTS_FILE is gone
RotateRename(t) ==
    /\ lthr[t].pc = "l98"
    /\ IF events_file = 0
       THEN /\ lthr' = [lthr EXCEPT ![t].pc = Caught("l119")]
            /\ dropped' = TRUE
            /\ UNCHANGED fsVars
       ELSE /\ backups' = Put(backups, now, events_file)
            /\ events_file' = 0
            /\ lthr' = [lthr EXCEPT ![t].pc = "l114"]
            /\ UNCHANGED <<inodes, dropped>>
    /\ UNCHANGED <<now, event_cache, calls, loggers, nextSeq, hist, npre, overlap>>

\* line 114: open(EVENTS_FILE, "a") makes the file when there is none
LogOpen(t) ==
    /\ lthr[t].pc = "l114"
    /\ IF events_file = 0
       THEN /\ inodes' = Append(inodes, [base |-> 0, lines |-> <<>>])
            /\ events_file' = Len(inodes) + 1
            /\ lthr' = [lthr EXCEPT ![t].pc = "l115", ![t].fh = Len(inodes) + 1]
       ELSE /\ lthr' = [lthr EXCEPT ![t].pc = "l115", ![t].fh = events_file]
            /\ UNCHANGED <<inodes, events_file>>
    /\ UNCHANGED <<now, event_cache, backups, calls, loggers, nextSeq, hist, npre,
                   overlap, dropped>>

\* line 115 and the close of the with block: the line goes to the open file,
\* whatever its name is by now
LogWrite(t) ==
    /\ lthr[t].pc = "l115"
    /\ inodes' = [inodes EXCEPT ![lthr[t].fh].lines = Append(@, lthr[t].event)]
    /\ lthr' = [lthr EXCEPT ![t].pc = "l119", ![t].fh = 0]
    /\ UNCHANGED <<now, event_cache, events_file, backups, calls, loggers, nextSeq,
                   hist, npre, overlap, dropped>>

\* stat, rename, open or write (lines 97-115) raises OSError (no
\* permission, disk full, read-only file system): the with block closes the
\* file if it was open, and the except clause of line 116 takes over
LogFault(t) ==
    /\ io_faults
    /\ lthr[t].pc \in {"l97s", "l98", "l114", "l115"}
    /\ lthr' = [lthr EXCEPT ![t].pc = Caught("l119"), ![t].fh = 0]
    /\ dropped' = TRUE
    /\ UNCHANGED <<now, event_cache, fsVars, calls, loggers, nextSeq, hist, npre,
                   overlap>>

\* line 119
LogCacheAppend(t) ==
    /\ lthr[t].pc = "l119"
    /\ event_cache' = CacheAppend(event_cache, lthr[t].event)
    /\ hist' = Append(hist, lthr[t].event)
    /\ lthr' = [lthr EXCEPT ![t].pc = "l120"]
    /\ UNCHANGED <<now, fsVars, calls, loggers, nextSeq, npre, overlap, dropped>>

\* line 120, and the return of line 123 when the cache is not over its size
LogCacheCheck(t) ==
    /\ lthr[t].pc = "l120"
    /\ lthr' = [lthr EXCEPT ![t] = IF CacheFull(event_cache)
                                   THEN [@ EXCEPT !.pc = "l121"] ELSE IdleLog]
    /\ UNCHANGED <<now, event_cache, fsVars, calls, loggers, nextSeq, hist, npre,
                   overlap, dropped>>

\* line 121 and the return of line 123
LogCachePop(t) ==
    /\ lthr[t].pc = "l121"
    /\ event_cache' = CachePop(event_cache)
    /\ lthr' = [lthr EXCEPT ![t] = IdleLog]
    /\ UNCHANGED <<now, fsVars, calls, loggers, nextSeq, hist, npre, overlap, dropped>>

log_event(t) ==
    /\ UNCHANGED <<regVars, analysis, otherVars, diagVars>>
    /\ \/ LogStart(t)
       \/ RotateExists(t)
       \/ RotateStat(t)
       \/ RotateRename(t)
       \/ LogOpen(t)
       \/ LogWrite(t)
       \/ LogFault(t)
       \/ LogCacheAppend(t)
       \/ LogCacheCheck(t)
       \/ LogCachePop(t)

\* a second passes
StoreTick ==
    /\ now < MaxSecond
    /\ now' = now + 1
    /\ UNCHANGED <<regVars, analysis, event_cache, fsVars, storeVars, otherVars, diagVars>>

\* The events load_event_cache put in the cache at start-up.
Loaded(n) == [k \in 1..n |-> Event(0, "up", "w1", "10.0.0.1", <<k>>)]

\* A run: n events loaded at start-up, an events file of `bytes` bytes (none
\* when 0), c calls of log_event to come from k threads, at second t.
RunFrom(n, bytes, c, k, t) ==
    /\ now = t
    /\ event_cache = Loaded(n)
    /\ hist = Loaded(n)
    /\ npre = n
    /\ nextSeq = n + 1
    /\ inodes = IF bytes = 0 THEN <<>> ELSE <<[base |-> bytes, lines |-> <<>>]>>
    /\ events_file = IF bytes = 0 THEN 0 ELSE 1
    /\ backups = EmptyDict
    /\ calls = c
    /\ loggers = k
    /\ lthr = [u \in 1..k |-> IdleLog]
    /\ overlap = FALSE
    /\ dropped = FALSE

\* The runs: one thread filling the cache past its size; one thread filling
\* it to its size with a second thread joining for the last MaxRace calls;
\* two threads making RaceCalls calls on an empty or almost full cache and
\* an events file that is small or at the rotation size.
InitStore ==
    /\ RegistryAtStart
    /\ budget = [w \in Workers |-> 0]
    /\ analysis = NotAnalysed
    /\ NoQuery
    /\ NoDiagnostics
    /\ ReliableDisk
    /\ payloads = {"none"}
    /\ SenderAtRest
    /\ \/ RunFrom(0, 0, MAX_CACHE_SIZE + MaxExtra, 1, MaxSecond)
       \/ RunFrom(1, LineBytes, MAX_CACHE_SIZE, 2, MaxSecond)
       \/ \E n \in {0, MAX_CACHE_SIZE - 1} :
            \E bytes \in {n * LineBytes, MAX_EVENTS_FILE_SIZE} :
                RunFrom(n, bytes, RaceCalls, 2, 0)

NextStore ==
    \/ \E t \in 1..loggers : log_event(t)
    \/ StoreTick

SpecStore == InitStore /\ [][NextStore]_vars

\* ------------------------------------------------------------ faulty disk
\* One worker sends one heartbeat and stops, a further caller makes
\* FaultCalls calls of log_event, the events file is due for rotation, and
\* any file operation can raise OSError.
FaultCalls == 1
InitFault ==
    /\ RegistryAtStart
    /\ budget = [w \in Workers |-> IF w = "w1" THEN 1 ELSE 0]
    /\ analysis = NotAnalysed
    /\ NoQuery
    /\ NoDiagnostics
    /\ io_faults = TRUE
    /\ payloads = {"none"}
    /\ SenderAtRest
    /\ RunFrom(0, MAX_EVENTS_FILE_SIZE + 1, FaultCalls, 1, 0)

NextFault ==
    \/ \E r \in 1..NumRequests : ping(r)
    \/ \E i \in 1..Len(tobj) : Fire(i)
    \/ \E i \in 1..Len(tobj) : missed_ping(i)
    \/ Tick
    \/ \E t \in 1..loggers : log_event(t)

SpecFault == InitFault /\ [][NextFault]_vars

\* ------------------------------------------------------------ properties
\* Nothing of worker w is in progress or pending: no request, no armed
\* timer, no callback.  Without a new heartbeat nothing more happens for w.
Quiescent(w) == InFlight(w) = {} /\ LiveTimers(w) = {} /\ RunningTimers(w) = {}

\* C1: once nothing is pending for W, every accepted heartbeat of W has a DOWN
\* event after it: the last heartbeat is eventually followed by a DOWN event.
C1_DownEventuallyRecorded == \A w \in Workers : Quiescent(w) => ~owed[w]

\* C2: since the latest heartbeat of W at most one DOWN event was appended and
\* at most one DOWN alert enqueued.
C2_AtMostOneDown == \A w \in Workers : dsh[w] <= 1 /\ dsa[w] <= 1

\* C3: a worker whose heartbeats were all accepted and that has always had a
\* heartbeat less than FAIL_TIMEOUT ago has no DOWN event and no DOWN alert.
C3_NoFalseAlarm ==
    \A w \in Workers :
        (gapOK[w] /\ ~failed[w] /\ InFlight(w) = {})
            => (DownsOf(w) = <<>> /\ DownAlertsOf(w) = <<>>)

\* C4: when every worker has sent exactly one heartbeat and all are accepted,
\* no worker ever has more than one DOWN event or alert, and once the
\* callbacks have run each worker has exactly one of each: N events, N alerts.
OneHeartbeatEach == DOMAIN lastHB = Workers /\ \A w \in Workers : budget[w] = 0
AllDowns == LET D(e) == e.type = "down" IN SelectSeq(event_cache, D)
AllDownAlerts == LET D(m) == m.kind = "down" IN SelectSeq(message_queue, D)
Decided(t) == t.fired /\ t.pc \notin {"c251", "c252"}
Alerted(t) == t.fired /\ t.pc \in {"c272", "c273", "c274", "done", "dead"}
C4_OneDownPerWorker ==
    OneHeartbeatEach =>
        /\ \A w \in Workers : Len(DownsOf(w)) <= 1 /\ Len(DownAlertsOf(w)) <= 1 /\ ~failed[w]
        /\ \A i \in 1..Len(tobj) :
              /\ Decided(tobj[i]) => tobj[i].pc = "c257" \/ Len(DownsOf(tobj[i].w)) = 1
              /\ Alerted(tobj[i]) => Len(DownAlertsOf(tobj[i].w)) = 1
        /\ (\A w \in Workers : Quiescent(w)) =>
              /\ \A w \in Workers : Len(DownsOf(w)) = 1 /\ Len(DownAlertsOf(w)) = 1
              /\ Len(AllDowns) = Card(Workers)
              /\ Len(AllDownAlerts) = Card(Workers)
C4_Witness ==
    /\ OneHeartbeatEach
    /\ \A w \in Workers : Quiescent(w)
    /\ Len(AllDowns) = Card(Workers)

\* C5: a heartbeat that finds a live timer emits no UP event, and one that
\* finds none, the worker never seen or last confirmed DOWN, emits one.
C5_UpIffNoLiveTimer ==
    \A r \in 1..NumRequests :
        req[r].pc \notin {"idle", "p291", "p292"} =>
            /\ req[r].st = "live" => ~req[r].was_new
            /\ req[r].st = "down" => req[r].was_new

\* The DOWN events of the store that lie in the trailing window.
InWindowDowns(cache, utcnow) ==
    LET D(e) == e.type = "down" /\ e.ts >= utcnow - ANALYZE_WINDOW * 60
    IN  SelectSeq(cache, D)

\* C6: with W the distinct workers and A the distinct addresses of the DOWN
\* events of the window, the result follows the decision table, and
\* affected_workers is the set of those workers.
C6_DecisionTable ==
    analysis # NotAnalysed =>
        LET D == InWindowDowns(event_cache, now)
            workers == {e.worker : e \in Range(D)}
            W == Card(workers)
            A == Card({e.client_ip : e \in Range(D)})
            Is(st, sev) == analysis.status = st /\ analysis.severity = sev
        IN  /\ analysis.affected_workers = workers
            /\ D = <<>> => analysis.status = "healthy"
            /\ (W >= 5 /\ A = 1) => Is("network_issue", "high")
            /\ (W >= 5 /\ A = 2) => Is("network_issue", "high")
            /\ (W >= 5 /\ A >= 3) => Is("possible_ddos", "critical")
            /\ (W >= 2 /\ W <= 4) => Is("partial_outage", "medium")
            /\ W = 1 => Is("individual_failure", "low")

\* C7: the result is the one of the store that holds the same DOWN events of
\* the window and nothing else, and it is healthy exactly when the store
\* holds no DOWN event of the window.
C7_SameWindowSameResult ==
    analysis # NotAnalysed =>
        /\ analysis = analyze_failures(InWindowDowns(event_cache, now), now)
        /\ analysis.status = "healthy" <=> InWindowDowns(event_cache, now) = <<>>

\* The events log_event has appended, and the last n events of a list.
Appended == SubSeq(hist, npre + 1, Len(hist))
LastN(seq, n) == SubSeq(seq, Len(seq) - n + 1, Len(seq))
Query(limit) == get_recent_events(event_cache, now, limit, None, None, 0)

C9_CacheIsMostRecent ==
    AllIdle =>
        /\ Len(event_cache) <= MAX_CACHE_SIZE
        /\ event_cache = LastN(hist, Min(Len(hist), MAX_CACHE_SIZE))

\* C10: every file that holds records has a name, the active one or a
\* rotated one, and no call of log_event has ended without writing its record.
Named(i) == events_file = i \/ \E suffix \in DOMAIN backups : backups[suffix] = i
C10_RotationLosesNothing ==
    /\ \A i \in 1..Len(inodes) :
          (inodes[i].base > 0 \/ inodes[i].lines # <<>>) => Named(i)
    /\ ~dropped

\* C11: a query returns the last `limit` of the events of the whole cache
\* that pass the time, type and worker filters.
FilterAll(cache, utcnow, event_type, worker, since_minutes) ==
    LET Pass(e) == /\ since_minutes # 0 => e.ts >= utcnow - since_minutes * 60
                   /\ event_type # None => e.type = event_type
                   /\ worker # None => e.worker = worker
    IN  SelectSeq(cache, Pass)
C11_QueryIsFilterThenLimit ==
    answer.kind = "events" =>
        answer.events = PySuffix(FilterAll(event_cache, now, answer.event_type,
                                           answer.worker, answer.since_minutes),
                                 answer.limit)

\* C16: a bucket is among the mass-failure windows exactly when the DOWN
\* events of the report that fall in it come from at least 3 distinct workers.
C16_MassFailureIsDistinctWorkers ==
    answer.kind = "rca" =>
        LET downs == {e \in Range(answer.events) : e.type = "down"}
            flagged == {m.time : m \in answer.mass_failure_windows}
        IN  \A b \in {Bucket(e.ts) : e \in downs} :
                b \in flagged <=>
                    Card({e.worker : e \in {d \in downs : Bucket(d.ts) = b}}) >= 3

\* The dispatcher's bookkeeping: every message taken from the queue has, in
\* the order of taking, either an outcome or is the message in hand.
Asleep == sender.pc \in {"sleepU", "sleep"}
InHand(k) == k = Len(taken) /\ sender.pc # "get" /\ sender.message = taken[k]
MaxMessages == 2

\* C12: a rate-limit answer never ends the handling of a message: the message
\* stays in hand through every backoff, is asked again after it, and its
\* handling ends, after any number of rate-limit answers, with the first
\* answer that is no rate limit; no other message is taken meanwhile.
C12_RateLimitedIsRetried ==
    /\ [](\A k \in 1..Len(taken) :
            IF k <= Len(outcomes)
            THEN /\ outcomes[k].message = taken[k]
                 /\ outcomes[k].result \in {"ok", "error", "raise"}
            ELSE InHand(k))
    /\ [](Asleep => /\ sender.limited >= 1
                    /\ InHand(Len(taken))
                    /\ Len(outcomes) = Len(taken) - 1)
    /\ [][Asleep => /\ taken' = taken
                    /\ outcomes' = outcomes
                    /\ sender'.message = sender.message]_vars
    /\ (Asleep ~> sender.pc = "request")
    /\ \A n \in 1..MaxMessages : (Len(taken) >= n) ~> (Len(outcomes) >= n)
C12_Witness ==
    /\ Len(outcomes) >= 1
    /\ outcomes[1].attempts = MaxRateLimits + 1
    /\ outcomes[1].result = "ok"
    /\ message_queue # <<>>

\* C13: an answer that is an error but no rate limit, or an exception of the
\* transport call, ends the handling of the message at once: it is not asked
\* again, the thread is back at message_queue.get(), and every message put on
\* the queue is eventually taken.
C13_FailureDropsOnce ==
    /\ [][Len(outcomes') > Len(outcomes) =>
            /\ outcomes' = Append(outcomes, outcomes'[Len(outcomes')])
            /\ outcomes'[Len(outcomes')].message = sender.message
            /\ outcomes'[Len(outcomes')].attempts = sender.limited + 1
            /\ sender' = IdleSender
            /\ taken' = taken]_vars
    /\ [](sender.pc \in {"get", "request", "sleepU", "sleep"})
    /\ [](sender.pc = "get" => Len(outcomes) = Len(taken))
    /\ \A n \in 1..MaxMessages :
          (Len(taken) + Len(message_queue) >= n) ~> (Len(taken) >= n)
C13_Witness ==
    /\ Len(outcomes) = 2
    /\ outcomes[1].result \in {"error", "raise"}
    /\ outcomes[1].attempts = 1
    /\ outcomes[1].message # outcomes[2].message

\* C14: while the dispatcher sleeps after a rate-limit answer the gate of
\* every worker is closed.  (pause_events[w] is TRUE when the Event is set,
\* that is when the gate is open.)
C14_GatesClosedInBackoff ==
    Asleep => \A w \in DOMAIN pause_events : ~pause_events[w]

\* C20: messages leave the queue at its head, one at a time and only when no
\* message is in hand; they enter it at its tail; so they are attempted in
\* the order of the puts, each once.
C20_Fifo ==
    /\ [][taken' # taken =>
            /\ sender.pc = "get"
            /\ message_queue # <<>>
            /\ taken' = Append(taken, Head(message_queue))
            /\ message_queue' = Tail(message_queue)
            /\ sender'.message = Head(message_queue)]_vars
    /\ [][message_queue' # message_queue =>
            \/ taken' # taken
            \/ \E m \in {message_queue'[Len(message_queue')]} :
                  message_queue' = Append(message_queue, m)]_vars
    /\ [](sender.pc # "get" => InHand(Len(taken)) /\ Len(outcomes) = Len(taken) - 1)
C20_Witness ==
    /\ Len(taken) = 2
    /\ Len(outcomes) = 2
    /\ outcomes[1].attempts > 1
    /\ taken[1] # taken[2]

\* C15: a heartbeat whose diagnostic payload is malformed is served to its
\* end like one without payload: it does not end in an exception.
C15_MalformedStillAccepted ==
    \A r \in 1..NumRequests :
        req[r].body \in Malformed => req[r].pc \notin {"e400", "e500"}

\* C17: a callback decides at lines 252-254, from the clock it read at line
\* 251 and the last_seen of that moment: stale, and it then appends one DOWN
\* event of its worker and puts one DOWN alert; not stale, and it goes to
\* the cleanup of line 272.  Nothing else appends a DOWN event or an alert.
Moves(i, from) == tobj[i].pc = from /\ tobj'[i].pc # from
C17_DecidedAtFireTime ==
    [][/\ \A i \in 1..Len(tobj) :
            LET w == tobj[i].w IN
            /\ Moves(i, "c252") =>
                  tobj'[i].pc =
                     IF w \in DOMAIN last_seen /\ tobj[i].ct - last_seen[w] > FAIL_TIMEOUT
                     THEN "c257" ELSE "c272"
            /\ Moves(i, "c257") =>
                  /\ tobj'[i].pc = "c262"
                  /\ Len(DownsOf(w)') = Len(DownsOf(w)) + 1
                  /\ Len(AllDowns') = Len(AllDowns) + 1
            /\ Moves(i, "c262") => tobj'[i].pc = "c268"
            /\ Moves(i, "c268") =>
                  /\ tobj'[i].pc = "c272"
                  /\ Len(DownAlertsOf(w)') = Len(DownAlertsOf(w)) + 1
                  /\ Len(AllDownAlerts') = Len(AllDownAlerts) + 1
       /\ Len(AllDowns') # Len(AllDowns) => \E i \in 1..Len(tobj) : Moves(i, "c257")
       /\ Len(AllDownAlerts') # Len(AllDownAlerts) =>
             \E i \in 1..Len(tobj) : Moves(i, "c268")]_vars
C17_Witness ==
    \E i \in 1..Len(tobj) :
        /\ tobj[i].pc = "c272"
        /\ tobj[i].ct - tobj[i].lp <= FAIL_TIMEOUT
        /\ tobj[i].w \in DOMAIN last_seen
        /\ DownsOf(tobj[i].w) = <<>>
        /\ DownAlertsOf(tobj[i].w) = <<>>

\* C18: a worker has at most one live timer, and a live timer of a worker
\* is the one the timers dict holds for it.
C18_OneLiveTimerInMap ==
    \A w \in Workers :
        /\ Card(LiveTimers(w)) <= 1
        /\ \A i \in LiveTimers(w) : w \in DOMAIN timers /\ timers[w] = i

\* C19: with no request and no callback of the worker in progress, the
\* worker is a key of timers exactly when it has an accepted heartbeat with
\* no DOWN event after it.
C19_UpIffFreshHeartbeat ==
    \A w \in Workers :
        (InFlight(w) = {} /\ RunningTimers(w) = {}) =>
            (w \in DOMAIN timers <=> owed[w])

\* The events of the cache that are in no file.
Stored == UNION {Range(inodes[i].lines) : i \in 1..Len(inodes)}
Unwritten(type) == {e \in Range(event_cache) : e.type = type /\ e \notin Stored}

\* C21: whatever becomes of the file, a call of log_event raises nothing and
\* appends its event to the cache; the heartbeat that logs an UP event goes
\* on to its notification and its answer, the callback that logs a DOWN
\* event goes on to the classifier and its alert.
C21_WriteFailureIsSwallowed ==
    /\ [](\A t \in 1..Len(lthr) : lthr[t].pc # "raised")
    /\ [](AllIdle => Len(hist) = nextSeq - 1)
    /\ [](\A w \in Workers : ~failed[w])
    /\ [][/\ \A t \in 1..Len(lthr) :
            (lthr[t].pc = "l119" /\ lthr'[t].pc # "l119") =>
                /\ lthr'[t].pc = "l120"
                /\ event_cache' = Append(event_cache, lthr[t].event)
       /\ \A r \in 1..NumRequests :
            /\ (req[r].pc = "p315" /\ req'[r].pc # "p315") =>
                  /\ req'[r].pc = "p316"
                  /\ Len(EventsOf(req[r].w)') = Len(EventsOf(req[r].w)) + 1
            /\ (req[r].pc = "p316" /\ req'[r].pc # "p316") =>
                  /\ req'[r].pc = "p318"
                  /\ Len(message_queue') = Len(message_queue) + 1
       /\ \A i \in 1..Len(tobj) :
            /\ Moves(i, "c257") =>
                  /\ tobj'[i].pc = "c262"
                  /\ Len(DownsOf(tobj[i].w)') = Len(DownsOf(tobj[i].w)) + 1
            /\ Moves(i, "c262") => tobj'[i].pc = "c268"
            /\ Moves(i, "c268") =>
                  Len(DownAlertsOf(tobj[i].w)') = Len(DownAlertsOf(tobj[i].w)) + 1]_vars
C21_Witness ==
    /\ \E e \in Unwritten("down") : e.worker = "w1" /\ DownAlertsOf("w1") # <<>>
    /\ \E e \in Unwritten("up") : e.worker = "w1" /\ e.extra = <<>>
    /\ dropped /\ AllIdle /\ calls = 0

\* C22: at most one call of log_event is between its file size check and
\* the end of its write.
InFileSection(t) == lthr[t].pc \in {"l97s", "l98", "l114", "l115"}
C22_FileWritesSerialized ==
    Card({t \in 1..Len(lthr) : InFileSection(t)}) <= 1

\* C23: the events endpoint returns at most min(limit, 1000) events, for
\* every limit from 0 on and every combination of filters.
C23_AtMostLimit ==
    answer.kind = "events" =>
        Len(answer.events) <= Min(answer.limit, MAX_CACHE_SIZE)

\* C24: the message_sender thread of the plain server never ends.
C24_PlainSenderSurvives == sender.pc # "dead"

\* C25: in the event log the events of a worker begin with an UP event and
\* alternate between UP and DOWN.
C25_EventsAlternate ==
    \A w \in Workers :
        LET ev == EventsOf(w)
        IN  \A k \in 1..Len(ev) :
                ev[k].type = IF k % 2 = 1 THEN "up" ELSE "down"

\* C26: when every DOWN event of the store has client_ip null (they come
\* from expiry callbacks only) and the DOWN events of the window are of 5 or
\* more workers, the result is network_issue with the same-IP line.
OnlyCallbackDowns ==
    \A e \in Range(event_cache) : e.type = "down" => e.client_ip = None
C26_CallbackDownsAreOneAddress ==
    (analysis # NotAnalysed /\ OnlyCallbackDowns) =>
        LET D == InWindowDowns(event_cache, now)
            W == Card({e.worker : e \in Range(D)})
        IN  /\ analysis.status # "possible_ddos"
            /\ W >= 5 => /\ analysis.status = "network_issue"
                         /\ analysis.message[1] = "NETWORK ISSUE"

====
